---- MODULE Spec2Model ----
(***************************************************************************)
(* Model of the Fauxmo Z-Wave plugin (zwaveplugin.py): the ZwavePlugin     *)
(* adapter that turns on(), off() and get_state() into HTTP GETs against   *)
(* a zway-server and maps the answers back to the host's bool / str.       *)
(*                                                                         *)
(* Python values that may have more than one type (None or str, the JSON   *)
(* values of a body) are records [t |-> type name, v |-> payload].         *)
(* Response bodies are strings, parsed character by character.            *)
(***************************************************************************)
EXTENDS Integers, Sequences, FiniteSets, TLC

\* Numeric levels 0..MaxLevelNum are among the levels the server reports.
MaxLevelNum == 1

\* Bodies padded with 1..MaxPad trailing blanks are among the answers.
MaxPad == 1

response_ok == "{\"data\":null,\"code\":200,\"message\":\"200 OK\",\"error\":null}"

-----------------------------------------------------------------------------
(* Python values *)

PyNone == [t |-> "NoneType", v |-> "None"]

PyStr(s) == [t |-> "str", v |-> s]

PyBool(b) == [t |-> "bool", v |-> IF b THEN "True" ELSE "False"]

PyInt(lexeme) == [t |-> "int", v |-> lexeme]

PyList(elems) == [t |-> "list", v |-> elems]

PyDict(items) == [t |-> "dict", v |-> items]

\* Truth value of the optional constructor arguments (None or str).
Truthy(x) == x.t = "str" /\ Len(x.v) > 0

Digits == "0123456789"

RECURSIVE str(_)
\* str(n) of a non-negative int
str(n) ==
    IF n < 10 THEN SubSeq(Digits, n + 1, n + 1)
    ELSE str(n \div 10) \o SubSeq(Digits, (n % 10) + 1, (n % 10) + 1)

\* "needle in haystack" for two str
Contains(haystack, needle) ==
    \E i \in 1..(Len(haystack) - Len(needle) + 1) :
        SubSeq(haystack, i, i + Len(needle) - 1) = needle

-----------------------------------------------------------------------------
(* resp.json(): the JSON grammar without string escapes, fractions and     *)
(* exponents, which no body of the model uses.                             *)

Ch(s, i) == IF i >= 1 /\ i <= Len(s) THEN SubSeq(s, i, i) ELSE ""

IsWs(c) == c \in {" ", "\t", "\n", "\r"}

IsDigit(c) == Len(c) = 1 /\ Contains(Digits, c)

Fail(i) == [ok |-> FALSE, v |-> PyNone, i |-> i]

Ok(val, i) == [ok |-> TRUE, v |-> val, i |-> i]

RECURSIVE SkipWs(_, _)
SkipWs(s, i) == IF IsWs(Ch(s, i)) THEN SkipWs(s, i + 1) ELSE i

RECURSIVE EndOfString(_, _)
\* index of the closing quote of a string whose content starts at i, 0 if none
EndOfString(s, i) ==
    IF i > Len(s) THEN 0
    ELSE IF Ch(s, i) = "\"" THEN i
    ELSE IF Ch(s, i) = "\\" THEN 0
    ELSE EndOfString(s, i + 1)

RECURSIVE EndOfDigits(_, _)
\* index after the last digit of a run of digits starting at i
EndOfDigits(s, i) == IF IsDigit(Ch(s, i)) THEN EndOfDigits(s, i + 1) ELSE i

IsLiteral(s, i, lit) ==
    i >= 1 /\ i + Len(lit) - 1 <= Len(s) /\ SubSeq(s, i, i + Len(lit) - 1) = lit

ParseString(s, i) ==
    LET e == EndOfString(s, i + 1)
    IN  IF Ch(s, i) = "\"" /\ e > 0
        THEN Ok(PyStr(SubSeq(s, i + 1, e - 1)), e + 1)
        ELSE Fail(i)

ParseNumber(s, i) ==
    LET d == IF Ch(s, i) = "-" THEN i + 1 ELSE i
        e == EndOfDigits(s, d)
    IN  IF e > d /\ ~(Ch(s, d) = "0" /\ e > d + 1)
        THEN Ok(PyInt(SubSeq(s, i, e - 1)), e)
        ELSE Fail(i)

RECURSIVE ParseValue(_, _), ParseElements(_, _, _), ParseMembers(_, _, _)

\* the elements of an array after "[" or ",": acc holds those already read
ParseElements(s, i, acc) ==
    LET e == ParseValue(s, SkipWs(s, i))
        j == SkipWs(s, e.i)
    IN  IF ~e.ok THEN Fail(i)
        ELSE IF Ch(s, j) = "," THEN ParseElements(s, j + 1, Append(acc, e.v))
        ELSE IF Ch(s, j) = "]" THEN Ok(PyList(Append(acc, e.v)), j + 1)
        ELSE Fail(j)

\* the members of an object after "{" or ",": acc holds those already read
ParseMembers(s, i, acc) ==
    LET k == ParseString(s, SkipWs(s, i))
        c == SkipWs(s, k.i)
        e == ParseValue(s, SkipWs(s, c + 1))
        j == SkipWs(s, e.i)
    IN  IF ~k.ok \/ Ch(s, c) # ":" THEN Fail(i)
        ELSE IF ~e.ok THEN Fail(c)
        ELSE IF Ch(s, j) = ","
             THEN ParseMembers(s, j + 1, Append(acc, <<k.v.v, e.v>>))
        ELSE IF Ch(s, j) = "}"
             THEN Ok(PyDict(Append(acc, <<k.v.v, e.v>>)), j + 1)
        ELSE Fail(j)

ParseValue(s, i) ==
    LET c == Ch(s, i)
    IN  IF c = "{"
        THEN IF Ch(s, SkipWs(s, i + 1)) = "}"
             THEN Ok(PyDict(<<>>), SkipWs(s, i + 1) + 1)
             ELSE ParseMembers(s, i + 1, <<>>)
        ELSE IF c = "["
        THEN IF Ch(s, SkipWs(s, i + 1)) = "]"
             THEN Ok(PyList(<<>>), SkipWs(s, i + 1) + 1)
             ELSE ParseElements(s, i + 1, <<>>)
        ELSE IF c = "\"" THEN ParseString(s, i)
        ELSE IF c = "-" \/ IsDigit(c) THEN ParseNumber(s, i)
        ELSE IF IsLiteral(s, i, "null") THEN Ok(PyNone, i + 4)
        ELSE IF IsLiteral(s, i, "true") THEN Ok(PyBool(TRUE), i + 4)
        ELSE IF IsLiteral(s, i, "false") THEN Ok(PyBool(FALSE), i + 5)
        ELSE Fail(i)

\* resp.json(): one value between optional blanks, nothing after it
json(text) ==
    LET r == ParseValue(text, SkipWs(text, 1))
    IN  IF r.ok /\ SkipWs(text, r.i) = Len(text) + 1 THEN r ELSE Fail(r.i)

-----------------------------------------------------------------------------
(* Python's "in" and subscription on the parsed body *)

HasKey(items, k) == \E n \in 1..Len(items) : items[n][1] = k

\* the value of the last member named k (a later duplicate replaces an earlier)
Lookup(items, k) ==
    LET n == CHOOSE m \in 1..Len(items) :
                 /\ items[m][1] = k
                 /\ \A l \in (m + 1)..Len(items) : items[l][1] # k
    IN  items[n][2]

\* k in x, for a str k: "True", "False" or "TypeError"
PyIn(k, x) ==
    IF x.t = "dict" THEN (IF HasKey(x.v, k) THEN "True" ELSE "False")
    ELSE IF x.t = "list"
         THEN (IF \E n \in 1..Len(x.v) : x.v[n].t = "str" /\ x.v[n].v = k
               THEN "True" ELSE "False")
    ELSE IF x.t = "str" THEN (IF Contains(x.v, k) THEN "True" ELSE "False")
    ELSE "TypeError"

\* x[k], for a str k that is "in" x: only a dict can be subscripted by a str
CanGetItem(x) == x.t = "dict"

PyGetItem(x, k) == Lookup(x.v, k)

\* text == s, for a str s
EqStr(text, s) == text.t = "str" /\ text.v = s

-----------------------------------------------------------------------------
(* Outcomes of a call, requests and responses *)

Return(val) == [kind |-> "return", v |-> val]

Raise(exc) == [kind |-> "raise", v |-> [t |-> "exception", v |-> exc]]

NoOutcome == [kind |-> "none", v |-> PyNone]

NoRequest == [url |-> "", headers |-> <<>>, auth |-> <<>>]

NoCall == [op |-> "none", req |-> NoRequest]

NoResponse == [exc |-> FALSE, status_code |-> 0, text |-> ""]

LevelBody(lit) == "{\"data\":{\"metrics\":{\"level\":" \o lit \o "}}}"

Quoted(s) == "\"" \o s \o "\""

RECURSIVE Blanks(_)
Blanks(n) == IF n = 0 THEN "" ELSE " " \o Blanks(n - 1)

StrLevels == {"off", "close", "closed", "on", "open", "dim", ""}

\* bodies that hold data.metrics.level
LevelBodies ==
    {LevelBody(Quoted(l)) : l \in StrLevels}
        \cup {LevelBody(str(n)) : n \in 0..MaxLevelNum}

\* bodies that are JSON without data.metrics.level
OtherJsonBodies ==
    { response_ok, "{}", "[]", "null", "[\"data\"]", "\"no data\"",
      "{\"data\":{}}", "{\"data\":{\"metrics\":{}}}",
      "{\"data\":{\"metrics\":\"level\"}}", "{\"data\":[\"metrics\"]}" }
        \cup {response_ok \o Blanks(n) : n \in 1..MaxPad}

\* bodies that are not JSON
NonJsonBodies == {"", "<html>404</html>"}

Bodies == LevelBodies \cup OtherJsonBodies \cup NonJsonBodies

\* what requests.get(...) can produce: a response, or an exception
Responses ==
    {[exc |-> FALSE, status_code |-> 200, text |-> b] : b \in Bodies}
        \cup {[exc |-> FALSE, status_code |-> 404, text |-> b] :
                 b \in {response_ok, LevelBody(Quoted("on")), "<html>404</html>"}}
        \cup {[exc |-> TRUE, status_code |-> 0, text |-> "Connection refused"]}

-----------------------------------------------------------------------------
(* The adapter *)

Threads == {"t1", "t2"}

\* the keyword arguments the plugin is constructed with
Configs ==
    { [zwave_host |-> "localhost", zwave_port |-> 8083, zwave_user |-> "admin",
       zwave_pass |-> PyNone, zwave_auth |-> PyStr("tok"),
       zwave_device |-> "HTTP_Device_switchBinary_62", fake_state |-> FALSE],
      [zwave_host |-> "zway.lan", zwave_port |-> 80, zwave_user |-> "admin",
       zwave_pass |-> PyStr("secret"), zwave_auth |-> PyNone,
       zwave_device |-> "ZWayVDev_zway_2", fake_state |-> FALSE],
      [zwave_host |-> "localhost", zwave_port |-> 8083, zwave_user |-> "alexa",
       zwave_pass |-> PyStr("secret"), zwave_auth |-> PyStr("tok"),
       zwave_device |-> "ZWayVDev_zway_2", fake_state |-> FALSE],
      [zwave_host |-> "zway.lan", zwave_port |-> 8083, zwave_user |-> "alexa",
       zwave_pass |-> PyStr("secret"), zwave_auth |-> PyStr(""),
       zwave_device |-> "HTTP_Device_switchBinary_62", fake_state |-> FALSE],
      [zwave_host |-> "localhost", zwave_port |-> 8083, zwave_user |-> "admin",
       zwave_pass |-> PyNone, zwave_auth |-> PyStr("tok"),
       zwave_device |-> "HTTP_Device_switchBinary_62", fake_state |-> TRUE],
      [zwave_host |-> "zway.lan", zwave_port |-> 80, zwave_user |-> "admin",
       zwave_pass |-> PyStr("secret"), zwave_auth |-> PyNone,
       zwave_device |-> "ZWayVDev_zway_2", fake_state |-> TRUE] }

VARIABLES
    self,           \* the attributes __init__ sets
    latest_action,  \* the host's record of the last successful action
    pc,             \* per thread: "idle", "sent" (GET in flight), "done"
    op,             \* per thread: the method running, "on", "off", "get_state"
    req,            \* per thread: the GET of this call
    nreq,           \* per thread: the number of GETs this call has issued
    resp,           \* per thread: what requests.get gave this call
    ret,            \* per thread: how the call ended
    log,            \* per thread: the logger calls of this call
    lastReq         \* the last two GETs issued, with the method that issued each

vars == <<self, latest_action, pc, op, req, nreq, resp, ret, log, lastReq>>

Init ==
    /\ self \in Configs
    /\ latest_action = "off"
    /\ pc = [t \in Threads |-> "idle"]
    /\ op = [t \in Threads |-> "none"]
    /\ req = [t \in Threads |-> NoRequest]
    /\ nreq = [t \in Threads |-> 0]
    /\ resp = [t \in Threads |-> NoResponse]
    /\ ret = [t \in Threads |-> NoOutcome]
    /\ log = [t \in Threads |-> <<>>]
    /\ lastReq = <<NoCall, NoCall>>

CmdUrl(cmd) ==
    "http://" \o self.zwave_host \o ":" \o str(self.zwave_port)
        \o "/ZAutomation/api/v1/devices/" \o self.zwave_device
        \o "/command/" \o cmd

StateUrl_Command ==
    "http://" \o self.zwave_host \o ":" \o str(self.zwave_port)
        \o "/ZAutomation/api/v1/devices/" \o self.zwave_device \o "/command/"

StateUrl ==
    "http://" \o self.zwave_host \o ":" \o str(self.zwave_port)
        \o "/ZAutomation/api/v1/devices/" \o self.zwave_device

Get_BasicFirst(url) ==
    IF Truthy(self.zwave_auth) /\ ~Truthy(self.zwave_pass)
    THEN [url |-> url,
          headers |-> << <<"Authorization",
                           "Bearer ZWAYSession/" \o self.zwave_auth.v>> >>,
          auth |-> <<>>]
    ELSE [url |-> url, headers |-> <<>>,
          auth |-> <<PyStr(self.zwave_user), self.zwave_pass>>]

\* the arguments of requests.get
Get(url) ==
    IF Truthy(self.zwave_auth)
    THEN [url |-> url,
          headers |-> << <<"Authorization",
                           "Bearer ZWAYSession/" \o self.zwave_auth.v>> >>,
          auth |-> <<>>]
    ELSE [url |-> url, headers |-> <<>>,
          auth |-> <<PyStr(self.zwave_user), self.zwave_pass>>]

Info(msg) == <<"info", msg>>

Error(msg) == <<"error", msg>>

\* the thread issues its GET and waits for the answer
Send(t, o, url) ==
    /\ pc' = [pc EXCEPT ![t] = "sent"]
    /\ op' = [op EXCEPT ![t] = o]
    /\ req' = [req EXCEPT ![t] = Get(url)]
    /\ nreq' = [nreq EXCEPT ![t] = @ + 1]
    /\ log' = [log EXCEPT ![t] = Append(@, Info("ZwavePlugin: Getting " \o url \o " "))]
    /\ lastReq' = <<lastReq[2], [op |-> o, req |-> Get(url)]>>
    /\ UNCHANGED <<self, latest_action, resp, ret>>

\* the call ends with outcome out after logging entries
Finish(t, r, out, entries) ==
    /\ pc' = [pc EXCEPT ![t] = "done"]
    /\ resp' = [resp EXCEPT ![t] = r]
    /\ ret' = [ret EXCEPT ![t] = out]
    /\ log' = [log EXCEPT ![t] = @ \o entries]
    /\ UNCHANGED <<self, latest_action, op, req, nreq, lastReq>>

StatusLine(r) == "ZwavePlugin: " \o str(r.status_code) \o " " \o r.text \o " "

ZwaveCmdResult_StatusOnly(r) ==
    IF r.exc THEN Return(PyBool(FALSE))
    ELSE IF r.status_code = 200 THEN Return(PyBool(TRUE))
    ELSE Return(PyBool(FALSE))

\* _ZwaveCmd after requests.get: the value returned
ZwaveCmdResult(r) ==
    IF r.exc THEN Return(PyBool(FALSE))
    ELSE IF r.status_code = 200 /\ r.text = response_ok THEN Return(PyBool(TRUE))
    ELSE Return(PyBool(FALSE))

ZwaveCmdLog(r) ==
    IF r.exc THEN <<Error("ZwavePlugin: " \o r.text)>>
    ELSE IF r.status_code = 200 /\ r.text = response_ok THEN <<>>
    ELSE <<Error(StatusLine(r))>>

\* _ZwaveCmd up to requests.get
ZwaveCmd(t, cmd) ==
    /\ pc[t] = "idle"
    /\ Send(t, cmd, CmdUrl(cmd))

on(t) == ZwaveCmd(t, "on")

off(t) == ZwaveCmd(t, "off")

\* a failed GET is issued again
ZwaveCmdResponse_Retry(t, r) ==
    /\ pc[t] = "sent"
    /\ op[t] \in {"on", "off"}
    /\ IF ZwaveCmdResult(r) = Return(PyBool(FALSE)) /\ nreq[t] < 2
       THEN /\ nreq' = [nreq EXCEPT ![t] = @ + 1]
            /\ log' = [log EXCEPT ![t] = @ \o ZwaveCmdLog(r)]
            /\ lastReq' = <<lastReq[2], [op |-> op[t], req |-> req[t]]>>
            /\ UNCHANGED <<self, latest_action, pc, op, req, resp, ret>>
       ELSE Finish(t, r, ZwaveCmdResult(r), ZwaveCmdLog(r))

\* a rejected token is forgotten
ZwaveCmdResponse_DropToken(t, r) ==
    /\ pc[t] = "sent"
    /\ op[t] \in {"on", "off"}
    /\ pc' = [pc EXCEPT ![t] = "done"]
    /\ resp' = [resp EXCEPT ![t] = r]
    /\ ret' = [ret EXCEPT ![t] = ZwaveCmdResult(r)]
    /\ log' = [log EXCEPT ![t] = @ \o ZwaveCmdLog(r)]
    /\ self' = IF ~r.exc /\ r.status_code # 200
               THEN [self EXCEPT !.zwave_auth = PyNone] ELSE self
    /\ UNCHANGED <<latest_action, op, req, nreq, lastReq>>

\* _ZwaveCmd from the answer of requests.get to its return
ZwaveCmdResponse(t, r) ==
    /\ pc[t] = "sent"
    /\ op[t] \in {"on", "off"}
    /\ Finish(t, r, ZwaveCmdResult(r), ZwaveCmdLog(r))

Found(text) == [found |-> "yes", text |-> text]

NotFound == [found |-> "no", text |-> PyNone]

LookupError == [found |-> "TypeError", text |-> PyNone]

\* the nested "in" tests and subscriptions of get_state on the parsed body
LevelLookup(resp_json) ==
    IF PyIn("data", resp_json) = "TypeError" THEN LookupError
    ELSE IF PyIn("data", resp_json) = "False" THEN NotFound
    ELSE IF ~CanGetItem(resp_json) THEN LookupError
    ELSE LET data == PyGetItem(resp_json, "data")
    IN  IF PyIn("metrics", data) = "TypeError" THEN LookupError
        ELSE IF PyIn("metrics", data) = "False" THEN NotFound
        ELSE IF ~CanGetItem(data) THEN LookupError
        ELSE LET metrics == PyGetItem(data, "metrics")
        IN  IF PyIn("level", metrics) = "TypeError" THEN LookupError
            ELSE IF PyIn("level", metrics) = "False" THEN NotFound
            ELSE IF ~CanGetItem(metrics) THEN LookupError
            ELSE Found(PyGetItem(metrics, "level"))

IsOffLevel(text) ==
    EqStr(text, "off") \/ EqStr(text, "close") \/ EqStr(text, "closed")

IsOnLevel(text) == EqStr(text, "on") \/ EqStr(text, "open")

Normalise_Strict(text) ==
    IF IsOffLevel(text) THEN PyStr("off")
    ELSE IF IsOnLevel(text) THEN PyStr("on")
    ELSE PyStr("unknown")

\* the state get_state returns for the level text
Normalise(text) ==
    IF IsOffLevel(text) THEN PyStr("off")
    ELSE IF IsOnLevel(text) THEN PyStr("on")
    ELSE text

GetStateResult_Propagate(r) ==
    IF r.exc THEN Raise("ConnectionError")
    ELSE IF r.status_code = 200
    THEN IF ~json(r.text).ok THEN Raise("JSONDecodeError")
         ELSE LET l == LevelLookup(json(r.text).v)
              IN  IF l.found = "TypeError" THEN Raise("TypeError")
                  ELSE IF l.found = "yes" THEN Return(Normalise(l.text))
                  ELSE Return(PyStr("unknown"))
    ELSE Return(PyStr("unknown"))

\* get_state after requests.get: the value returned or the exception raised
GetStateResult(r) ==
    IF r.exc THEN Return(PyStr("unknown"))
    ELSE IF r.status_code = 200
    THEN IF ~json(r.text).ok THEN Raise("JSONDecodeError")
         ELSE LET l == LevelLookup(json(r.text).v)
              IN  IF l.found = "TypeError" THEN Raise("TypeError")
                  ELSE IF l.found = "yes" THEN Return(Normalise(l.text))
                  ELSE Return(PyStr("unknown"))
    ELSE Return(PyStr("unknown"))

\* the text of a level in a log line, for the str and int levels
Shown(text) == IF text.t \in {"str", "int", "bool", "NoneType"} THEN text.v ELSE "..."

GetStateLog(r) ==
    IF r.exc THEN <<Error("ZwavePlugin: " \o r.text)>>
    ELSE IF r.status_code = 200
    THEN IF ~json(r.text).ok THEN <<>>
         ELSE LET l == LevelLookup(json(r.text).v)
              IN  IF l.found = "TypeError" THEN <<>>
                  ELSE IF l.found = "yes"
                  THEN IF IsOffLevel(l.text) \/ IsOnLevel(l.text) THEN <<>>
                       ELSE <<Info("ZwavePlugin: unknown level: " \o Shown(l.text) \o " ")>>
                  ELSE <<Error(StatusLine(r))>>
    ELSE <<Error(StatusLine(r))>>

get_state_NoFake(t) ==
    /\ pc[t] = "idle"
    /\ Send(t, "get_state", StateUrl)

\* get_state up to requests.get, or to its return when the state is faked
get_state(t) ==
    /\ pc[t] = "idle"
    /\ IF self.fake_state
       THEN /\ pc' = [pc EXCEPT ![t] = "done"]
            /\ op' = [op EXCEPT ![t] = "get_state"]
            /\ ret' = [ret EXCEPT ![t] = Return(PyStr(latest_action))]
            /\ log' = [log EXCEPT ![t] =
                          Append(@, Info("ZwavePlugin: return fake state latest_action"))]
            /\ UNCHANGED <<self, latest_action, req, nreq, resp, lastReq>>
       ELSE Send(t, "get_state", StateUrl)

\* the answer is kept where the other thread's call finds it
GetStateResponse_Shared(t, r) ==
    /\ pc[t] = "sent"
    /\ op[t] = "get_state"
    /\ LET others == {u \in Threads \ {t} : pc[u] = "done" /\ nreq[u] > 0}
           seen == IF others = {} THEN r ELSE resp[CHOOSE u \in others : TRUE]
       IN  Finish(t, r, GetStateResult(seen), GetStateLog(seen))

\* get_state from the answer of requests.get to its return
GetStateResponse(t, r) ==
    /\ pc[t] = "sent"
    /\ op[t] = "get_state"
    /\ Finish(t, r, GetStateResult(r), GetStateLog(r))

\* the host takes the outcome of the call and records a successful action
Collect(t) ==
    /\ pc[t] = "done"
    /\ latest_action' =
           IF op[t] \in {"on", "off"} /\ ret[t] = Return(PyBool(TRUE))
           THEN op[t] ELSE latest_action
    /\ pc' = [pc EXCEPT ![t] = "idle"]
    /\ op' = [op EXCEPT ![t] = "none"]
    /\ req' = [req EXCEPT ![t] = NoRequest]
    /\ nreq' = [nreq EXCEPT ![t] = 0]
    /\ resp' = [resp EXCEPT ![t] = NoResponse]
    /\ ret' = [ret EXCEPT ![t] = NoOutcome]
    /\ log' = [log EXCEPT ![t] = <<>>]
    /\ UNCHANGED <<self, lastReq>>

Next ==
    \E t \in Threads :
        \/ on(t)
        \/ off(t)
        \/ get_state(t)
        \/ \E r \in Responses : ZwaveCmdResponse(t, r)
        \/ \E r \in Responses : GetStateResponse(t, r)
        \/ Collect(t)

Spec == Init /\ [][Next]_vars

-----------------------------------------------------------------------------
(* Properties *)

Done(t) == pc[t] = "done"

\* the call of t got an HTTP response (no transport exception)
Answered(t) == Done(t) /\ nreq[t] > 0 /\ ~resp[t].exc

True == Return(PyBool(TRUE))

False == Return(PyBool(FALSE))

Unknown == Return(PyStr("unknown"))

IsObject(x) == x.t = "dict"

\* the JSON value x is an object with data.metrics.level
HasLevelPath(x) ==
    /\ IsObject(x) /\ HasKey(x.v, "data")
    /\ IsObject(Lookup(x.v, "data")) /\ HasKey(Lookup(x.v, "data").v, "metrics")
    /\ IsObject(Lookup(Lookup(x.v, "data").v, "metrics"))
    /\ HasKey(Lookup(Lookup(x.v, "data").v, "metrics").v, "level")

LevelOf(x) == Lookup(Lookup(Lookup(x.v, "data").v, "metrics").v, "level")

\* C1: when the GET of on() or off() completes without a transport
\* exception, the call returns True if the status is 200 and the body equals
\* the success sentinel character for character, and False for every other
\* (status, body) pair.
C1_CmdTrueIffSentinel ==
    \A t \in Threads :
        (Answered(t) /\ op[t] \in {"on", "off"}) =>
            IF resp[t].status_code = 200 /\ resp[t].text = response_ok
            THEN ret[t] = True
            ELSE ret[t] = False

\* on() got status 200 with the sentinel followed by a blank, and returned False
C1_Witness ==
    \E t \in Threads :
        /\ Answered(t) /\ op[t] = "on"
        /\ resp[t].status_code = 200
        /\ resp[t].text = response_ok \o " "
        /\ ret[t] = False

C3_MismatchIsUnknown ==
    \A t \in Threads :
        ( /\ Answered(t) /\ op[t] = "get_state" /\ ~self.fake_state
          /\ \/ resp[t].status_code # 200
             \/ ~json(resp[t].text).ok
             \/ ~HasLevelPath(json(resp[t].text).v) ) =>
            ret[t] = Unknown

\* C4: with fake_state true, get_state() issues no GET and returns the
\* host's latest action as it is at the call.
C4_FakeStateNoRequest ==
    [][\A t \in Threads :
          (self.fake_state /\ pc[t] = "idle" /\ op'[t] = "get_state") =>
              /\ pc'[t] = "done"
              /\ ret'[t] = Return(PyStr(latest_action))
              /\ nreq'[t] = 0
              /\ req'[t] = NoRequest
              /\ resp'[t] = NoResponse
              /\ lastReq' = lastReq]_vars

\* get_state() with fake_state true returned "on", the action the host
\* recorded, without a GET
C4_Witness ==
    \E t \in Threads :
        /\ self.fake_state /\ Done(t) /\ op[t] = "get_state"
        /\ nreq[t] = 0
        /\ latest_action = "on"
        /\ ret[t] = Return(PyStr("on"))

IsError(entry) == entry[1] = "error"

\* C5: when the GET raises, on() and off() return False, get_state() returns
\* "unknown", none of them raises, and an error is logged.
C5_TransportFailureCaught ==
    \A t \in Threads :
        (Done(t) /\ nreq[t] > 0 /\ resp[t].exc) =>
            /\ ret[t] = IF op[t] = "get_state" THEN Unknown ELSE False
            /\ \E n \in 1..Len(log[t]) : IsError(log[t][n])

\* get_state() ended after its GET raised
C5_Witness ==
    \E t \in Threads :
        /\ Done(t) /\ op[t] = "get_state" /\ resp[t].exc
        /\ ret[t] = Unknown

\* the adapter was given a token
HasToken == self.zwave_auth # PyNone /\ self.zwave_auth # PyStr("")

\* C6: every GET of an adapter with a token carries the header
\* Authorization: Bearer ZWAYSession/{token} and no basic-auth credentials,
\* whatever zwave_user and zwave_pass are; every GET of an adapter without
\* a token carries the credentials (zwave_user, zwave_pass) and no header.
C6_AuthSelection ==
    \A t \in Threads :
        nreq[t] > 0 =>
            IF HasToken
            THEN /\ req[t].headers =
                        << <<"Authorization",
                             "Bearer ZWAYSession/" \o self.zwave_auth.v>> >>
                 /\ req[t].auth = <<>>
            ELSE /\ req[t].headers = <<>>
                 /\ req[t].auth = <<PyStr(self.zwave_user), self.zwave_pass>>

\* a GET of an adapter that has both a token and a password
C6_Witness ==
    \E t \in Threads :
        /\ nreq[t] > 0
        /\ HasToken /\ self.zwave_pass = PyStr("secret")
        /\ Len(req[t].headers) = 1

\* C7: a call issues at most one GET; after a failure it ends without a
\* second one.
C7_AtMostOneRequest ==
    \A t \in Threads :
        /\ nreq[t] <= 1
        /\ pc[t] = "sent" => nreq[t] = 1

\* on() ended in failure after one GET
C7_Witness ==
    \E t \in Threads :
        /\ Done(t) /\ op[t] = "on" /\ ret[t] = False
        /\ nreq[t] = 1

PortText == IF self.zwave_port = 8083 THEN "8083" ELSE "80"

DeviceUrl ==
    "http://" \o self.zwave_host \o ":" \o PortText
        \o "/ZAutomation/api/v1/devices/" \o self.zwave_device

\* C8: on() requests .../devices/{device}/command/on, off() requests
\* .../devices/{device}/command/off and get_state() requests
\* .../devices/{device}, on http://{zwave_host}:{zwave_port}/ZAutomation/api/v1.
C8_RequestUrl ==
    \A t \in Threads :
        nreq[t] > 0 =>
            /\ op[t] = "on" => req[t].url = DeviceUrl \o "/command/on"
            /\ op[t] = "off" => req[t].url = DeviceUrl \o "/command/off"
            /\ op[t] = "get_state" => req[t].url = DeviceUrl
            /\ (op[t] = "on" /\ self.zwave_host = "localhost"
                  /\ self.zwave_port = 8083
                  /\ self.zwave_device = "HTTP_Device_switchBinary_62") =>
                   req[t].url = "http://localhost:8083/ZAutomation/api/v1/devices/HTTP_Device_switchBinary_62/command/on"

\* get_state() and off() have each issued their GET
C8_Witness ==
    \E t, u \in Threads :
        /\ nreq[t] > 0 /\ op[t] = "get_state"
        /\ nreq[u] > 0 /\ op[u] = "off"

\* C9: no call changes the attributes set at construction; two on() calls
\* in a row issue the same GET, and each returns True when it is answered
\* with status 200 and the sentinel.
C9_ConfigurationFrozen ==
    /\ [][self' = self]_vars
    /\ []((lastReq[1].op = "on" /\ lastReq[2].op = "on") =>
              lastReq[1].req = lastReq[2].req)
    /\ [](\A t \in Threads :
              ( /\ Answered(t) /\ op[t] = "on"
                /\ resp[t].status_code = 200
                /\ resp[t].text = response_ok ) => ret[t] = True)

\* two on() calls in a row were both answered with the sentinel and both
\* returned True
C9_Witness ==
    /\ lastReq[1].op = "on" /\ lastReq[2].op = "on"
    /\ \A t \in Threads :
           /\ Answered(t) /\ op[t] = "on"
           /\ resp[t].text = response_ok /\ ret[t] = True

\* C10 as stated: the outcome of a call is determined by the method and the
\* response to its own GET, whatever the other calls did.
C10_Original ==
    \A t, u \in Threads :
        (Done(t) /\ Done(u) /\ op[t] = op[u] /\ resp[t] = resp[u]) =>
            ret[t] = ret[u]

\* C10: the outcome of a call that issues a GET is determined by the method
\* and the response to that GET, whatever the other calls did and however
\* they interleaved.
C10_IndependentCalls ==
    \A t, u \in Threads :
        ( /\ Done(t) /\ Done(u)
          /\ nreq[t] > 0 /\ nreq[u] > 0
          /\ op[t] = op[u] /\ resp[t] = resp[u] ) =>
            ret[t] = ret[u]

\* two get_state() calls in flight together got the same answer
C10_Witness ==
    /\ \A t \in Threads :
           /\ Done(t) /\ op[t] = "get_state" /\ nreq[t] = 1
           /\ resp[t].text = LevelBody(Quoted("open"))
           /\ ret[t] = Return(PyStr("on"))
    /\ lastReq[1].op = "get_state" /\ lastReq[2].op = "get_state"
====
